---- MODULE Spec2Model ----
(***************************************************************************)
(* Code execution backends of google.adk.code_executors:                   *)
(*   UnsafeLocalCodeExecutor  (unsafe_local_code_executor.py)              *)
(*   IsolatedCodeExecutor     (isolated_code_executor.py)                  *)
(*                                                                         *)
(* Text is modelled as a sequence of lines.  A line of stdout is a string; *)
(* a line of stderr is a record [kind, type, text, name] so that "the traceback   *)
(* header", "a frame line", "the final 'Type: message' line" and "the bare *)
(* str(e)" are different texts.  Submitted code is a sequence of           *)
(* statements [kind, arg].                                                 *)
(***************************************************************************)
EXTENDS Integers, Sequences, FiniteSets, TLC

\* ------------------------------------------------------------------ bounds
MaxCodeLen == 2
MaxHostLines == 1

\* ------------------------------------------------------- submitted programs
Names == {"x"}
None == "None"

\* print("hello world")
PrintStmt == [kind |-> "print", arg |-> "hello world"]
\* x = 100   (def my_func(): ... binds its name the same way)
AssignStmt(n) == [kind |-> "assign", arg |-> n]
\* print(x)
ReadStmt(n) == [kind |-> "read", arg |-> n]
\* raise ValueError("Test error")
RaiseStmt == [kind |-> "raise", arg |-> "Test error"]
\* raise SystemExit(3), what sys.exit(3) does
SysExitStmt == [kind |-> "sysexit", arg |-> "3"]
\* if __name__ == "__main__":
\*     print("executed as main")
IfMainStmt == [kind |-> "ifmain", arg |-> "executed as main"]
\* s = "if __name__ == '__main__'"     (the guard text inside a string literal)
StrMainStmt == [kind |-> "strmain", arg |-> ""]

Stmts ==
  {PrintStmt, RaiseStmt, SysExitStmt, IfMainStmt, StrMainStmt}
    \cup {AssignStmt(n) : n \in Names} \cup {ReadStmt(n) : n \in Names}

Codes == UNION {[1..k -> Stmts] : k \in 0..MaxCodeLen}

\* what print(<name>) writes once <name> is bound by AssignStmt
ValueOf(n) == "100"

\* ------------------------------------------------------------- exceptions
NoExc == [type |-> "", text |-> "", name |-> ""]
\* NameError: name '<n>' is not defined
NameError(n) == [type |-> "NameError", text |-> "is not defined", name |-> n]
ValueError(m) == [type |-> "ValueError", text |-> m, name |-> ""]
SystemExit(c) == [type |-> "SystemExit", text |-> c, name |-> ""]

\* `except Exception` catches the subclasses of Exception; SystemExit derives
\* from BaseException only.
IsException(e) == e.type \in {"NameError", "ValueError"}

\* str(e): the message alone
Str(e) == <<[kind |-> "msg", type |-> "", text |-> e.text, name |-> e.name]>>

\* the handler writing str(e) in place of the traceback
FormatExcShort(e, frames) == Str(e)
\* traceback.format_exc(): header, the frames, then "Type: message"
FormatExc(e, frames) ==
  <<[kind |-> "header", type |-> "", text |-> "Traceback (most recent call last):",
     name |-> ""]>>
  \o [i \in 1..Len(frames) |->
        [kind |-> "frame", type |-> "", text |-> frames[i], name |-> ""]]
  \o <<[kind |-> "exc", type |-> e.type, text |-> e.text, name |-> e.name]>>

\* ---------------------------------------------------- the Python evaluator
EmptyGlobals == [n \in {} |-> ""]
Builtins == ("__name__" :> "builtins")

HasName(g, n) == n \in DOMAIN g \/ n \in DOMAIN Builtins
Lookup(g, n) == IF n \in DOMAIN g THEN g[n] ELSE Builtins[n]
Bind(g, n, v) == [k \in DOMAIN g \cup {n} |-> IF k = n THEN v ELSE g[k]]

\* exec(code, globals_): statements run in order until one raises; `out` is
\* what was written to sys.stdout up to that point.
RECURSIVE ExecFrom(_, _, _, _)
ExecFrom(code, i, g, out) ==
  IF i > Len(code) THEN [out |-> out, exc |-> NoExc, globals |-> g]
  ELSE LET s == code[i] IN
    CASE s.kind = "print" -> ExecFrom(code, i + 1, g, Append(out, s.arg))
      [] s.kind = "assign" ->
           ExecFrom(code, i + 1, Bind(g, s.arg, ValueOf(s.arg)), out)
      [] s.kind = "read" ->
           IF HasName(g, s.arg)
           THEN ExecFrom(code, i + 1, g, Append(out, Lookup(g, s.arg)))
           ELSE [out |-> out, exc |-> NameError(s.arg), globals |-> g]
      [] s.kind = "raise" -> [out |-> out, exc |-> ValueError(s.arg), globals |-> g]
      [] s.kind = "sysexit" -> [out |-> out, exc |-> SystemExit(s.arg), globals |-> g]
      [] s.kind = "ifmain" ->
           IF Lookup(g, "__name__") = "__main__"
           THEN ExecFrom(code, i + 1, g, Append(out, s.arg))
           ELSE ExecFrom(code, i + 1, g, out)
      [] OTHER -> ExecFrom(code, i + 1, g, out)

Exec(code, g) == ExecFrom(code, 1, g, <<>>)


\* ----------------------------------------------------- standard output
Console == "console"
Capture == "stdout_capture"
HostLine == "host line"

\* contextlib.redirect_stdout: __enter__ saves sys.stdout and installs the
\* new target, __exit__ reinstalls the saved stream on every exit path.
RedirectEnter(stream, target) == [cur |-> target, old |-> stream]
RedirectExit(r) == r.old

\* --------------------------------------------- unsafe_local_code_executor.py
\* module-level names bound by the import statements and definitions
ModuleGlobals ==
  {"annotations", "redirect_stdout", "io", "logging", "subprocess", "sys",
   "Any", "Field", "override", "InvocationContext", "BaseCodeExecutor",
   "CodeExecutionInput", "CodeExecutionResult", "logger", "_prepare_globals",
   "UnsafeLocalCodeExecutor"}

\* re.search(r"if\s+__name__\s*==\s*['\"]__main__['\"]", code): a match on the
\* text, wherever it stands
ReSearch(code) == \E i \in 1..Len(code) : code[i].kind \in {"ifmain", "strmain"}

\* _prepare_globals(code, globals_): the name `re` is looked up in the module's
\* globals when the function runs.
PrepareGlobals(code, globals_) ==
  IF "re" \notin ModuleGlobals
  THEN [exc |-> NameError("re"), globals |-> globals_]
  ELSE IF ReSearch(code)
       THEN [exc |-> NoExc, globals |-> Bind(globals_, "__name__", "__main__")]
       ELSE [exc |-> NoExc, globals |-> globals_]

FramesPrepare == <<"execute_code", "_prepare_globals">>
FramesExec == <<"execute_code", "<string>">>
FramesChild == <<"<string>">>

\* the result of one call: `returned` is FALSE when an exception left
\* execute_code (then `raised` is that exception and there is no result)
Result(out, err, stream) ==
  [returned |-> TRUE, raised |-> NoExc, stdout |-> out, stderr |-> err,
   output_files |-> <<>>, sys_stdout |-> stream]
Propagated(e, stream) ==
  [returned |-> FALSE, raised |-> e, stdout |-> <<>>, stderr |-> <<>>,
   output_files |-> <<>>, sys_stdout |-> stream]

\* subprocess.run([sys.executable, "-c", code], capture_output=True, text=True)
\* A fresh interpreter runs the code as module __main__; an uncaught exception
\* prints its traceback to the child's stderr, SystemExit(3) prints nothing;
\* the return code is dropped.
SubprocessRun(code) ==
  LET r == Exec(code, ("__name__" :> "__main__")) IN
  [stdout |-> r.out,
   stderr |-> IF r.exc = NoExc \/ r.exc.type = "SystemExit" THEN <<>>
              ELSE FormatExc(r.exc, FramesChild),
   returncode |-> IF r.exc = NoExc THEN 0
                  ELSE IF r.exc.type = "SystemExit" THEN 3 ELSE 1]

\* IsolatedCodeExecutor.execute_code
IsolatedExecuteCode(code, stream) ==
  LET p == SubprocessRun(code) IN Result(p.stdout, p.stderr, stream)

\* the in-process branch of UnsafeLocalCodeExecutor.execute_code with the
\* redirection written as a bare swap that only the normal path undoes
InProcessNoRestore(code, stream) ==
  LET p == PrepareGlobals(code, EmptyGlobals) IN
  IF p.exc # NoExc
  THEN Result(<<>>, FormatExc(p.exc, FramesPrepare), Capture)
  ELSE LET r == Exec(code, p.globals) IN
       IF r.exc = NoExc THEN Result(r.out, <<>>, stream)
       ELSE IF IsException(r.exc)
            THEN Result(r.out, FormatExc(r.exc, FramesExec), Capture)
            ELSE Propagated(r.exc, Capture)

\* the in-process branch of UnsafeLocalCodeExecutor.execute_code
InProcess(code, stream) ==
  LET p == PrepareGlobals(code, EmptyGlobals) IN
  IF p.exc # NoExc
  THEN \* raised before the with statement; NameError is an Exception
       Result(<<>>, FormatExc(p.exc, FramesPrepare), stream)
  ELSE LET rd == RedirectEnter(stream, Capture)
           r == Exec(code, p.globals)
           after == RedirectExit(rd)
       IN IF r.exc = NoExc THEN Result(r.out, <<>>, after)
          ELSE IF IsException(r.exc)
               THEN Result(r.out, FormatExc(r.exc, FramesExec), after)
               ELSE Propagated(r.exc, after)

\* UnsafeLocalCodeExecutor.execute_code
UnsafeExecuteCode(self, code, stream) ==
  IF self.use_separate_process
  THEN LET p == SubprocessRun(code) IN Result(p.stdout, p.stderr, stream)
  ELSE InProcess(code, stream)

\* which path a call on `self` takes
Mode(self) ==
  IF self.cls = "IsolatedCodeExecutor" \/ self.use_separate_process
  THEN "child" ELSE "inproc"

\* the globals the evaluated code starts with, when it is evaluated
StartGlobals(self, code) ==
  IF Mode(self) = "child" THEN ("__name__" :> "__main__")
  ELSE PrepareGlobals(code, EmptyGlobals).globals

\* ------------------------------------------------------------ construction
Keys == {"stateful", "optimize_data_file", "use_separate_process",
         "use_isolated_process"}
\* keyword arguments of a constructor call: each keyword is passed as True or
\* left out
KwargSets == {[k \in D |-> TRUE] : D \in SUBSET Keys}

Get(kw, k, default) == IF k \in DOMAIN kw THEN kw[k] ELSE default

NoExecutor ==
  [cls |-> None, stateful |-> FALSE, optimize_data_file |-> FALSE,
   use_separate_process |-> FALSE]

\* BaseCodeExecutor.__init__ (pydantic) is handed keywords that are not fields
\* of the class: it either drops them or rejects the call.
SuperInit(cls, fields, kw, sep) ==
  LET self == [cls |-> cls,
               stateful |-> Get(kw, "stateful", FALSE),
               optimize_data_file |-> Get(kw, "optimize_data_file", FALSE),
               use_separate_process |-> sep]
  IN IF DOMAIN kw \subseteq fields
     THEN {[outcome |-> "ok", self |-> self]}
     ELSE {[outcome |-> "ok", self |-> self],
           [outcome |-> "ValidationError", self |-> NoExecutor]}

\* __init__ checking stateful only
InitRaisesStatefulOnly(data) == "stateful" \in DOMAIN data /\ data["stateful"]
\* the two checks at the head of both __init__ methods
InitRaises(data) ==
  \/ "stateful" \in DOMAIN data /\ data["stateful"]
  \/ "optimize_data_file" \in DOMAIN data /\ data["optimize_data_file"]

\* UnsafeLocalCodeExecutor.__init__(self, use_separate_process=False, **data)
UnsafeInit(kw) ==
  LET use_separate_process == Get(kw, "use_separate_process", FALSE)
      data == [k \in DOMAIN kw \ {"use_separate_process"} |-> kw[k]]
  IN IF InitRaises(data)
     THEN {[outcome |-> "ValueError", self |-> NoExecutor]}
     ELSE SuperInit("UnsafeLocalCodeExecutor",
                    {"stateful", "optimize_data_file", "use_separate_process"},
                    kw, use_separate_process)

\* IsolatedCodeExecutor.__init__(self, **data)
IsolatedInit(kw) ==
  IF InitRaises(kw)
  THEN {[outcome |-> "ValueError", self |-> NoExecutor]}
  ELSE SuperInit("IsolatedCodeExecutor", {"stateful", "optimize_data_file"},
                 kw, FALSE)

Classes == {"UnsafeLocalCodeExecutor", "IsolatedCodeExecutor"}

\* ------------------------------------------------------------------- state
Threads == {1, 2}

VARIABLES
  executor,     \* the executor instance, NoExecutor when none was built
  ctor,         \* the last constructor call: class, keywords, outcome
  last,         \* the last execute_code call on `executor` and its outcome
  earlierDefs,  \* names that earlier calls on `executor` defined
  sys_stdout,   \* the stream installed as sys.stdout of the host process
  console,      \* what reached the host's original standard output
  stray,        \* host lines that landed in a capture buffer
  th,           \* per thread: position inside execute_code and its locals
  bufs          \* contents of each thread's stdout_capture

vars == <<executor, ctor, last, earlierDefs, sys_stdout, console, stray, th, bufs>>

NoCtor == [cls |-> None, kwargs |-> EmptyGlobals, outcome |-> None]
NoCall ==
  [valid |-> FALSE, code |-> <<>>, mode |-> None, returned |-> FALSE,
   raised |-> NoExc, stdout |-> <<>>, stderr |-> <<>>, output_files |-> <<>>,
   before |-> Console, after |-> Console, earlier |-> {}]

IdleThread ==
  [pc |-> "idle", code |-> <<>>, ip |-> 1, globals |-> EmptyGlobals,
   exc |-> NoExc, frames |-> <<>>, saved |-> Console, stderr |-> <<>>,
   stdout |-> <<>>]

BufOf(t) == IF t = 1 THEN "stdout_capture_1" ELSE "stdout_capture_2"

Init ==
  /\ executor = NoExecutor
  /\ ctor = NoCtor
  /\ last = NoCall
  /\ earlierDefs = {}
  /\ sys_stdout = Console
  /\ console = <<>>
  /\ stray = 0
  /\ th = [t \in Threads |-> IdleThread]
  /\ bufs = [t \in Threads |-> <<>>]

\* executor = Cls(**kw)
Construct(cls, kw) ==
  /\ \E r \in (IF cls = "UnsafeLocalCodeExecutor" THEN UnsafeInit(kw)
               ELSE IsolatedInit(kw)) :
       /\ executor' = r.self
       /\ ctor' = [cls |-> cls, kwargs |-> kw, outcome |-> r.outcome]
  /\ last' = NoCall
  /\ earlierDefs' = {}
  /\ UNCHANGED <<sys_stdout, console, stray, th, bufs>>

DefsOf(code) == {code[i].arg : i \in {j \in 1..Len(code) : code[j].kind = "assign"}}

\* executor.execute_code(invocation_context, CodeExecutionInput(code=code))
ExecuteCode(code) ==
  /\ executor.cls # None
  /\ \E res \in {IF executor.cls = "IsolatedCodeExecutor"
                  THEN IsolatedExecuteCode(code, sys_stdout)
                  ELSE UnsafeExecuteCode(executor, code, sys_stdout)} :
        /\ last' = [valid |-> TRUE, code |-> code, mode |-> Mode(executor),
                    returned |-> res.returned, raised |-> res.raised,
                    stdout |-> res.stdout, stderr |-> res.stderr,
                    output_files |-> res.output_files,
                    before |-> sys_stdout, after |-> res.sys_stdout,
                    earlier |-> earlierDefs]
        /\ sys_stdout' = res.sys_stdout
  /\ earlierDefs' = earlierDefs \cup DefsOf(code)
  /\ UNCHANGED <<executor, ctor, console, stray, th, bufs>>

\* the host writes a line to sys.stdout between two calls
HostPrint ==
  /\ Len(console) + stray < MaxHostLines
  /\ IF sys_stdout = Console
     THEN console' = Append(console, HostLine) /\ stray' = stray
     ELSE stray' = stray + 1 /\ console' = console
  /\ UNCHANGED <<executor, ctor, last, earlierDefs, sys_stdout, th, bufs>>

Next ==
  \/ \E cls \in Classes, kw \in KwargSets : Construct(cls, kw)
  \/ \E code \in Codes : ExecuteCode(code)
  \/ HostPrint

Spec == Init /\ [][Next]_vars


\* ---------------------------------------------------- two concurrent calls
\* Two threads call execute_code on one in-process UnsafeLocalCodeExecutor.
\* sys.stdout is one process-wide reference; each call owns its own
\* stdout_capture and stderr_capture.
PrintOf(s) == [kind |-> "print", arg |-> s]
TextOf(t) == IF t = 1 THEN "a" ELSE "b"
ConcCodes(t) ==
  {<<>>, <<PrintOf(TextOf(t))>>, <<PrintOf(TextOf(t)), PrintOf(TextOf(t))>>,
   <<PrintOf(TextOf(t)), RaiseStmt>>}

DefaultExecutor ==
  [cls |-> "UnsafeLocalCodeExecutor", stateful |-> FALSE,
   optimize_data_file |-> FALSE, use_separate_process |-> FALSE]

InitC ==
  /\ executor = DefaultExecutor
  /\ ctor = [cls |-> "UnsafeLocalCodeExecutor", kwargs |-> EmptyGlobals,
             outcome |-> "ok"]
  /\ last = NoCall
  /\ earlierDefs = {}
  /\ sys_stdout = Console
  /\ console = <<>>
  /\ stray = 0
  /\ th = [t \in Threads |-> IdleThread]
  /\ bufs = [t \in Threads |-> <<>>]

\* thread t enters execute_code: the flag is false, the two StringIO buffers
\* are created, the try block is entered and globals_ = {}
CallStart(t, code) ==
  /\ th[t].pc = "idle"
  /\ ~executor.use_separate_process
  /\ th' = [th EXCEPT ![t] = [IdleThread EXCEPT !.pc = "prepare", !.code = code]]
  /\ bufs' = [bufs EXCEPT ![t] = <<>>]
  /\ UNCHANGED <<executor, ctor, last, earlierDefs, sys_stdout, console, stray>>

\* where control goes when exception e leaves the body of the try block
OnRaise(e) == IF IsException(e) THEN "handler" ELSE "propagated"

\* one step of thread t inside the try block:
\*   prepare  _prepare_globals(code, globals_)
\*   enter    redirect_stdout.__enter__
\*   exec     the next statement of exec(code, globals_); its output goes to
\*            whatever sys.stdout names at that moment
\*   exit     redirect_stdout.__exit__
TryStep(t) ==
  LET me == th[t] IN
  /\ me.pc \in {"prepare", "enter", "exec", "exit"}
  /\ CASE me.pc = "prepare" ->
            \E p \in {PrepareGlobals(me.code, me.globals)} :
              /\ th' = [th EXCEPT ![t] =
                   IF p.exc # NoExc
                   THEN [me EXCEPT !.pc = OnRaise(p.exc), !.exc = p.exc,
                                   !.frames = FramesPrepare]
                   ELSE [me EXCEPT !.pc = "enter", !.globals = p.globals]]
              /\ UNCHANGED <<sys_stdout, bufs, console>>
       [] me.pc = "enter" ->
            \E rd \in {RedirectEnter(sys_stdout, BufOf(t))} :
              /\ sys_stdout' = rd.cur
              /\ th' = [th EXCEPT ![t] = [me EXCEPT !.pc = "exec", !.saved = rd.old]]
              /\ UNCHANGED <<bufs, console>>
       [] me.pc = "exec" ->
            IF me.ip > Len(me.code)
            THEN /\ th' = [th EXCEPT ![t] = [me EXCEPT !.pc = "exit"]]
                 /\ UNCHANGED <<sys_stdout, bufs, console>>
            ELSE \E r \in {Exec(<<me.code[me.ip]>>, me.globals)} :
                   /\ th' = [th EXCEPT ![t] =
                        IF r.exc # NoExc
                        THEN [me EXCEPT !.pc = "exit", !.exc = r.exc,
                                        !.frames = FramesExec]
                        ELSE [me EXCEPT !.ip = @ + 1, !.globals = r.globals]]
                   /\ IF sys_stdout = Console
                      THEN console' = console \o r.out /\ bufs' = bufs
                      ELSE /\ bufs' = [u \in Threads |->
                                 IF sys_stdout = BufOf(u) THEN bufs[u] \o r.out
                                 ELSE bufs[u]]
                           /\ console' = console
                   /\ UNCHANGED sys_stdout
       [] me.pc = "exit" ->
            /\ sys_stdout' = RedirectExit([cur |-> sys_stdout, old |-> me.saved])
            /\ th' = [th EXCEPT ![t] =
                 [me EXCEPT !.pc = IF me.exc = NoExc THEN "return"
                                   ELSE OnRaise(me.exc)]]
            /\ UNCHANGED <<bufs, console>>
  /\ UNCHANGED <<executor, ctor, last, earlierDefs, stray>>

\* except Exception as e: stderr_capture.write(traceback.format_exc())
Handler(t) ==
  /\ th[t].pc = "handler"
  /\ th' = [th EXCEPT ![t] =
       [@ EXCEPT !.pc = "return",
                 !.stderr = FormatExc(th[t].exc, th[t].frames)]]
  /\ UNCHANGED <<executor, ctor, last, earlierDefs, sys_stdout, console, stray, bufs>>

\* return CodeExecutionResult(stdout=stdout_capture.getvalue(), ...)
Return(t) ==
  /\ th[t].pc = "return"
  /\ th' = [th EXCEPT ![t] = [@ EXCEPT !.pc = "done", !.stdout = bufs[t]]]
  /\ UNCHANGED <<executor, ctor, last, earlierDefs, sys_stdout, console, stray, bufs>>

NextC ==
  \/ \E t \in Threads : \E code \in ConcCodes(t) : CallStart(t, code)
  \/ \E t \in Threads : TryStep(t)
  \/ \E t \in Threads : Handler(t)
  \/ \E t \in Threads : Return(t)

SpecC == InitC /\ [][NextC]_vars


\* ================================================================= claims
\* What the submitted code does when Python evaluates it the way the call's
\* mode is meant to: in a child as module __main__, in-process in globals
\* seeded with __name__ when the guard text is present.
IntendedGlobals(mode, code) ==
  IF mode = "child" \/ ReSearch(code) THEN ("__name__" :> "__main__")
  ELSE EmptyGlobals
Intended(mode, code) == Exec(code, IntendedGlobals(mode, code))

\* the message text of e appears in the text err
MentionsMessage(err, e) ==
  \E i \in 1..Len(err) : err[i].text = e.text /\ err[i].name = e.name

InProcCall == last.valid /\ last.mode = "inproc"

\* C1: code that only writes to standard output and terminates normally gets,
\* in-process, stdout = exactly what it printed, stderr = "" and no output
\* files.
C1_PrintOnlyResult ==
  (InProcCall /\ Intended("inproc", last.code).exc = NoExc)
    => /\ last.returned
       /\ last.stdout = Intended("inproc", last.code).out
       /\ last.stderr = <<>>
       /\ last.output_files = <<>>

\* C2: code that raises an exception before any output gets, in-process,
\* stdout = "" and a stderr containing the message of the exception it raised.
C2_RaiseResult ==
  (InProcCall /\ IsException(Intended("inproc", last.code).exc)
              /\ Intended("inproc", last.code).out = <<>>)
    => /\ last.returned
       /\ last.stdout = <<>>
       /\ MentionsMessage(last.stderr, Intended("inproc", last.code).exc)

\* C3: whatever failure the submitted code ends with, in every mode the call
\* returns a result, the failure is encoded in stderr and stdout keeps the
\* output produced before the failure.
C3_NeverRaisesOutward ==
  (last.valid /\ Intended(last.mode, last.code).exc # NoExc)
    => /\ last.returned
       /\ last.stderr # <<>>
       /\ last.stdout = Intended(last.mode, last.code).out

\* C4: a constructor call with stateful=True or optimize_data_file=True ends
\* with ValueError and leaves no executor, hence no call and no result; a call
\* without them that passes only fields of the class yields an executor with
\* both flags False.
FieldsOf(cls) ==
  IF cls = "UnsafeLocalCodeExecutor"
  THEN {"stateful", "optimize_data_file", "use_separate_process"}
  ELSE {"stateful", "optimize_data_file"}
FlagPassed(kw) == Get(kw, "stateful", FALSE) \/ Get(kw, "optimize_data_file", FALSE)
C4_ConstructionValidation ==
  ctor.outcome # None =>
    /\ FlagPassed(ctor.kwargs) => ctor.outcome = "ValueError"
    /\ ctor.outcome # "ok" => (executor = NoExecutor /\ ~last.valid)
    /\ ctor.outcome = "ok" =>
         /\ executor.cls = ctor.cls
         /\ ~executor.stateful
         /\ ~executor.optimize_data_file
    /\ (~FlagPassed(ctor.kwargs) /\ DOMAIN ctor.kwargs \subseteq FieldsOf(ctor.cls))
         => ctor.outcome = "ok"
C4_Witness ==
  /\ ctor.outcome = "ValueError"
  /\ DOMAIN ctor.kwargs = {"optimize_data_file"}
  /\ executor = NoExecutor

\* C5: a call that only reads a name which an earlier call on the same
\* executor defined starts without that name and ends with
\* "name '<n>' is not defined" in its stderr, in every mode.
C5_NoLeak ==
  \A n \in Names :
    (last.valid /\ last.code = <<ReadStmt(n)>> /\ n \in last.earlier)
      => /\ n \notin DOMAIN StartGlobals(executor, last.code)
         /\ last.returned
         /\ MentionsMessage(last.stderr, NameError(n))

\* C6: an UnsafeLocalCodeExecutor built with use_isolated_process=True runs
\* every call in a child process and returns what IsolatedCodeExecutor returns
\* for the same code.
C6_IsolatedRouting ==
  (last.valid /\ ctor.cls = "UnsafeLocalCodeExecutor"
              /\ "use_isolated_process" \in DOMAIN ctor.kwargs)
    => /\ last.mode = "child"
       /\ \E r \in {IsolatedExecuteCode(last.code, last.before)} :
            /\ last.returned = r.returned
            /\ last.stdout = r.stdout
            /\ last.stderr = r.stderr
            /\ last.output_files = r.output_files

\* C7: code containing a main guard runs its guarded branch in-process: the
\* branch's output is in stdout and stderr is empty.
C7_MainGuard ==
  (InProcCall /\ (\E i \in 1..Len(last.code) : last.code[i] = IfMainStmt)
              /\ Intended("inproc", last.code).exc = NoExc)
    => /\ last.returned
       /\ \E i \in 1..Len(last.stdout) : last.stdout[i] = IfMainStmt.arg
       /\ last.stderr = <<>>

\* C8 as stated: an in-process failure puts only str(e) in stderr, never a
\* traceback.
C8_ShortDescriptionOnly ==
  (InProcCall /\ last.returned /\ last.stderr # <<>>)
    => \A i \in 1..Len(last.stderr) : last.stderr[i].kind = "msg"

\* C8 amended: an in-process failure puts the full traceback text in stderr:
\* the header line, the frame lines and the final "Type: message" line.
C8_FullTraceback ==
  (InProcCall /\ last.returned /\ last.stderr # <<>>)
    => /\ Len(last.stderr) >= 3
       /\ last.stderr[1].kind = "header"
       /\ \A i \in 2..(Len(last.stderr) - 1) : last.stderr[i].kind = "frame"
       /\ last.stderr[Len(last.stderr)].kind = "exc"
       /\ last.stderr[Len(last.stderr)].type # ""
C8_Witness ==
  /\ InProcCall /\ last.returned /\ last.stderr # <<>>
  /\ last.code = <<RaiseStmt>>

\* C9: when two concurrent in-process calls have both returned, each result's
\* stdout is exactly what its own code wrote (nothing of the other call) and
\* sys.stdout is the stream installed before the calls.
C9_NoCrossTalk ==
  (\A t \in Threads : th[t].pc = "done")
    => /\ \A t \in Threads : th[t].stdout = Intended("inproc", th[t].code).out
       /\ sys_stdout = Console

====
